---- MODULE Spec2Model ----
(***************************************************************************)
(* Model of samcli/commands/deploy/guided_context.py: the GuidedContext   *)
(* object, its guided_prompts flow (one action per blocking prompt or     *)
(* collaborator call), and run() which hands the session to the config    *)
(* writer.                                                                 *)
(*                                                                         *)
(* Python values: None of a string-valued field is the string NONE; an    *)
(* optional dict is a record [isNone, d] whose d is a TLA+ function; a    *)
(* dict is a TLA+ function whose DOMAIN is its key set; tuples and lists  *)
(* are sequences.                                                          *)
(***************************************************************************)
EXTENDS Naturals, Sequences, FiniteSets, TLC

VARIABLES
    args,      \* the arguments GuidedContext was constructed with
    self,      \* the GuidedContext object's fields
    project,   \* the project's stacks, in order (project.default_stack is the first)
    env,       \* what the collaborators report about the resolved stack
    frame,     \* locals of the running method
    pc,        \* position in the flow
    entry,     \* the method that was called from outside
    calls,     \* prompts, confirms, echoes and collaborator calls, in order
    saved,     \* the save_config calls made on the config writer
    error,     \* message of the GuidedDeployFailedError raised, or NONE
    rerun      \* TRUE in a second run whose user accepts every default

vars == <<args, self, project, env, frame, pc, entry, calls, saved, error, rerun>>

\* ---------------------------------------------------------------- bounds
MaxStacks == 2
MaxParams == 2
MaxFunctions == 2
MaxResources == 2

\* ------------------------------------------------------- python values
NONE == "<None>"

TruthyStr(s) == s # NONE /\ s # ""

OrStr(a, b) == IF TruthyStr(a) THEN a ELSE b

EmptyDict == <<>>

NoneDict == [isNone |-> TRUE, d |-> EmptyDict]

SomeDict(d) == [isNone |-> FALSE, d |-> d]

TruthyDict(od) == ~od.isNone /\ DOMAIN od.d # {}

DictGet(d, k, dflt) == IF k \in DOMAIN d THEN d[k] ELSE dflt

DictPut(d, k, v) == [x \in DOMAIN d \cup {k} |-> IF x = k THEN v ELSE d[x]]

Dicts(keys, vals) == UNION {[D -> vals] : D \in SUBSET keys}

\* A template value is tagged with its Python type; str() renders an integer
\* in decimal and returns a string as it is.
StrVal(s) == [type |-> "str", val |-> s]

IntVal(n) == [type |-> "int", val |-> n]

str(v) == IF v.type = "int" THEN ToString(v.val) ELSE v.val

\* ------------------------------------------------------------ constants
DEFAULT_STACK_NAME == "sam-app"

DEFAULT_ENV == "default"

DEFAULT_CONFIG_FILE_NAME == "samconfig.toml"

IMAGE == "Image"

ZIP == "Zip"

SecurityMsg == "Security Constraints Not Satisfied!"

NoImagesMsg == "No images found to deploy, try running sam build"

NoStackMsg == "There is no stack with name"

InvalidEcrMsg == "Invalid Image Repository ECR URI"

\* ----------------------------------------------------------- collaborators
\* An optional stack is <<>> (None) or <<stack>>.
Stack(name) == [name |-> name, origin_dir |-> "dir-" \o name]

\* project.default_stack: the project's first stack, if it has one
default_stack == IF project = <<>> THEN <<>> ELSE <<project[1]>>

\* project.find_stack_by_name: the first stack carrying that name
find_stack_by_name(name) ==
    LET hits == {i \in 1..Len(project) : project[i].name = name}
    IN  IF hits = {} THEN <<>>
        ELSE <<project[CHOOSE i \in hits : \A j \in hits : i <= j]>>

\* stack.get_overrideable_parameters(): an ordered dict, as a sequence of
\* [key, props] with distinct keys; props is a dict that may hold "Default"
\* and "NoEcho".
get_overrideable_parameters == env.parameters

\* stack.find_function_resources_of_package_type(IMAGE), item ids in order
function_resources ==
    SelectSeq(env.functions, LAMBDA f : f.packagetype = IMAGE)

\* stack.has_assets_of_package_type(IMAGE)
has_image_assets == function_resources # <<>>

\* is_ecr_url: shape test of a repository URL
EcrUrls == {"111.dkr.ecr.us-east-1.amazonaws.com/shared",
            "111.dkr.ecr.us-east-1.amazonaws.com/own",
            "111.dkr.ecr.us-east-1.amazonaws.com/typed"}

is_ecr_url(url) == url \in EcrUrls

\* click.prompt returns the typed text, or the default when the user just
\* presses enter; without a default (None) it insists on typed text.  In a
\* re-run the user presses enter wherever a default is offered.
Answers(default, typed) ==
    IF default = NONE THEN typed
    ELSE IF rerun THEN {default} ELSE typed \cup {default}

\* click.confirm returns the answer, the default when the user presses enter
Confirms(default) == IF rerun THEN {default} ELSE BOOLEAN

PromptCall(step, target, default, hide_input, answer) ==
    [op |-> "prompt", step |-> step, target |-> target,
     default |-> default, hide_input |-> hide_input, answer |-> answer]

ConfirmCall(step, target, default, answer) ==
    [op |-> "confirm", step |-> step, target |-> target, default |-> default,
     answer |-> answer]

OtherCall(step, target) == [op |-> "call", step |-> step, target |-> target]

\* -------------------------------------------------------------- __init__
__init__(a) ==
    [stack_name |->
        OrStr(OrStr(a.stack_name,
                    IF default_stack = <<>> THEN NONE ELSE default_stack[1].name),
              DEFAULT_STACK_NAME),
     image_repository |-> a.image_repository,
     image_repositories |-> a.image_repositories,
     region |-> a.region,
     profile |-> a.profile,
     confirm_changeset |-> a.confirm_changeset,
     capabilities |-> <<a.capabilities>>,
     parameter_overrides_from_cmdline |-> a.parameter_overrides,
     save_to_config |-> TRUE,
     config_env |-> a.config_env,
     config_file |-> a.config_file,
     guided_stack_name |-> NONE,
     guided_s3_bucket |-> NONE,
     guided_image_repositories |-> NoneDict,
     guided_s3_prefix |-> NONE,
     guided_region |-> NONE,
     guided_profile |-> NONE,
     signing_profiles |-> a.signing_profiles,
     _capabilities |-> <<>>,
     _parameter_overrides |-> NoneDict,
     _iac_stack |-> <<>>,
     template_file |-> NONE]

\* Locals of guided_prompts and of the prompt_* methods before they are set.
\* None of a list-valued local is <<>>: the code only tests its truthiness.
NoFrame ==
    [default_stack_name |-> NONE, default_region |-> NONE,
     default_capabilities |-> <<>>, default_config_env |-> NONE,
     default_config_file |-> NONE, input_capabilities |-> <<>>,
     config_env |-> NONE, config_file |-> NONE, stack_name |-> NONE,
     region |-> NONE, input_parameter_overrides |-> EmptyDict,
     image_repositories |-> EmptyDict, confirm_changeset |-> FALSE,
     capabilities_confirm |-> FALSE, save_to_config |-> FALSE,
     s3_bucket |-> NONE, profile_name |-> NONE, profile_owner |-> NONE,
     i |-> 1]

Raise(msg) ==
    /\ error' = msg
    /\ pc' = "raised"

Log(c) == calls' = Append(calls, c)

\* ------------------------------------------------------- prompt_parameters
_get_parameter_value(parameter_key, parameter_properties, parameter_override_from_cmdline) ==
    IF /\ TruthyDict(parameter_override_from_cmdline)
       /\ TruthyStr(DictGet(parameter_override_from_cmdline.d, parameter_key, NONE))
    THEN parameter_override_from_cmdline.d[parameter_key]
    ELSE str(DictGet(parameter_properties, "Default", StrVal("")))

\* hide_input of the prompt issued for a parameter
ParameterHideInput(no_echo) == no_echo

\* a prompt that pre-fills the default of a sensitive parameter as well
ParameterDefault_prefilled(parameter_key, parameter_properties, no_echo) ==
    _get_parameter_value(parameter_key, parameter_properties,
                         self.parameter_overrides_from_cmdline)

\* default of the prompt issued for a parameter (None: no default is passed)
ParameterDefault(parameter_key, parameter_properties, no_echo) ==
    IF no_echo THEN NONE
    ELSE IF parameter_key \in DOMAIN frame.input_parameter_overrides
         THEN "<dict>"
         ELSE _get_parameter_value(parameter_key, parameter_properties,
                                   self.parameter_overrides_from_cmdline)

\* the entry recorded for a parameter
ParameterEntry(parameter, no_echo) == [Value |-> parameter, Hidden |-> no_echo]

\* one iteration of the loop over the template's overridable parameters
PromptParameter ==
    /\ pc = "prompt_parameters"
    /\ frame.i <= Len(get_overrideable_parameters)
    /\ LET p == get_overrideable_parameters[frame.i]
           no_echo == DictGet(p.props, "NoEcho", FALSE)
           default == ParameterDefault(p.key, p.props, no_echo)
       IN  \E parameter \in Answers(default, IF no_echo THEN {"s3cret"} ELSE {"typed"}) :
             /\ Log(PromptCall("parameter", p.key, default, ParameterHideInput(no_echo), parameter))
             /\ frame' = [frame EXCEPT
                    !.input_parameter_overrides =
                        DictPut(@, p.key, ParameterEntry(parameter, no_echo)),
                    !.i = @ + 1]
    /\ UNCHANGED <<args, self, project, env, pc, entry, saved, error, rerun>>

\* return _prompted_param_overrides; in guided_prompts, get_stacks follows
ReturnPromptParameters ==
    /\ pc = "prompt_parameters"
    /\ frame.i > Len(get_overrideable_parameters)
    /\ pc' = IF entry = "prompt_parameters" THEN "done" ELSE "prompt_image_repository"
    /\ frame' = [frame EXCEPT !.i = 1]
    /\ UNCHANGED <<args, self, project, env, entry, calls, saved, error, rerun>>

\* -------------------------------------------------- prompt_image_repository
\* default of the repository prompt: the conditional expression binds looser
\* than "or", so the shared value is reached only from the else branch
ImageRepositoryDefault(resource_id) ==
    IF ~self.image_repositories.isNone
    THEN DictGet(self.image_repositories.d, resource_id, "")
    ELSE OrStr("", self.image_repository)

PromptRepository ==
    /\ pc = "prompt_image_repository"
    /\ has_image_assets
    /\ frame.i <= Len(function_resources)
    /\ LET resource_id == function_resources[frame.i].id
           default == ImageRepositoryDefault(resource_id)
       IN  \E url \in Answers(default, {"111.dkr.ecr.us-east-1.amazonaws.com/typed", "not-a-repo"}) :
             /\ Log(PromptCall("image_repository", resource_id, default, FALSE, url))
             /\ IF ~is_ecr_url(url)
                THEN /\ Raise(InvalidEcrMsg)
                     /\ frame' = [frame EXCEPT
                            !.image_repositories = DictPut(@, resource_id, url)]
                ELSE /\ frame' = [frame EXCEPT
                            !.image_repositories = DictPut(@, resource_id, url),
                            !.i = IF frame.i = Len(function_resources) THEN 1 ELSE @ + 1]
                     /\ pc' = IF frame.i = Len(function_resources)
                              THEN "tag_translation" ELSE pc
                     /\ UNCHANGED error
    /\ UNCHANGED <<args, self, project, env, entry, saved, rerun>>

\* a tag loop that swallows both errors of the tag resolver
TagOutcome_swallow_all(function_prop) ==
    IF function_prop.packagetype # IMAGE THEN "pass"
    ELSE IF function_prop.tag = "tagged" THEN "echo" ELSE "pass"

\* a tag loop for which a non-local image is fatal too
TagOutcome_strict(function_prop) ==
    IF function_prop.packagetype # IMAGE THEN "pass"
    ELSE IF function_prop.tag = "tagged" THEN "echo" ELSE "raise"

\* what the tag loop does with one function of the function provider:
\* "raise", "pass" (nothing shown) or "echo" (the tag line is shown)
TagOutcome(function_prop) ==
    IF function_prop.packagetype # IMAGE THEN "pass"
    ELSE IF function_prop.tag = "no_image" THEN "raise"
    ELSE IF function_prop.tag = "non_local" THEN "pass"
    ELSE "echo"

TagTranslation ==
    /\ pc = "tag_translation"
    /\ frame.i <= Len(env.functions)
    /\ LET function_prop == env.functions[frame.i]
           outcome == TagOutcome(function_prop)
       IN  /\ IF outcome = "raise"
              THEN Raise(NoImagesMsg)
              ELSE UNCHANGED <<pc, error>>
           /\ IF outcome = "echo"
              THEN Log(OtherCall("secho_tag", function_prop.id))
              ELSE UNCHANGED calls
           /\ frame' = [frame EXCEPT !.i = IF outcome = "raise" THEN @ ELSE @ + 1]
    /\ UNCHANGED <<args, self, project, env, entry, saved, rerun>>

ReturnPromptImageRepository ==
    /\ \/ pc = "prompt_image_repository" /\ ~has_image_assets
       \/ pc = "tag_translation" /\ frame.i > Len(env.functions)
    /\ pc' = IF entry = "prompt_image_repository" THEN "done" ELSE "confirm_changeset"
    /\ frame' = [frame EXCEPT !.i = 1]
    /\ UNCHANGED <<args, self, project, env, entry, calls, saved, error, rerun>>

\* ----------------------------------------------------------- guided_prompts
\* line 123: the session's region, else botocore's configured one, else us-east-1
DefaultRegion(region, session_region) ==
    OrStr(OrStr(region, session_region), "us-east-1")

\* a default that forgets the capabilities the session was constructed with
DefaultCapabilities_baseline(capabilities) == <<"CAPABILITY_IAM">>

\* line 124: the wrapped constructor argument, else the IAM capability
DefaultCapabilities(capabilities) ==
    IF capabilities[1] # <<>> THEN capabilities[1] ELSE <<"CAPABILITY_IAM">>

\* lines 160, 173: the prompt that follows a confirmation
AfterCapabilitiesConfirm(capabilities_confirm) ==
    IF ~capabilities_confirm THEN "prompt_capabilities" ELSE "prompt_authorization"

\* a flow that asks for the config file whatever the answer
AfterSaveToConfig_always(save_to_config) == "prompt_config_file"

AfterSaveToConfig(save_to_config) ==
    IF save_to_config THEN "prompt_config_file" ELSE "manage_stack"

\* lines 122-135: the defaults are read from the session before any prompt
BeginGuidedPrompts ==
    /\ pc = "guided_prompts"
    /\ frame' = [NoFrame EXCEPT
            !.default_stack_name = self.stack_name,
            !.default_region = DefaultRegion(self.region, env.session_region),
            !.default_capabilities = DefaultCapabilities(self.capabilities),
            !.default_config_env = OrStr(self.config_env, DEFAULT_ENV),
            !.default_config_file = OrStr(self.config_file, DEFAULT_CONFIG_FILE_NAME)]
    /\ pc' = "prompt_stack_name"
    /\ UNCHANGED <<args, self, project, env, entry, calls, saved, error, rerun>>

PromptStackName ==
    /\ pc = "prompt_stack_name"
    /\ \E stack_name \in Answers(frame.default_stack_name, {"stack-b"}) :
         /\ Log(PromptCall("stack_name", "", frame.default_stack_name, FALSE, stack_name))
         /\ frame' = [frame EXCEPT !.stack_name = stack_name]
    /\ pc' = "_get_iac_stack"
    /\ UNCHANGED <<args, self, project, env, entry, saved, error, rerun>>

\* the stack _get_iac_stack settles on, <<>> when it raises
ResolvedStack(provided_stack_name) ==
    LET stack == IF find_stack_by_name(provided_stack_name) # <<>>
                 THEN find_stack_by_name(provided_stack_name)
                 ELSE default_stack
    IN  IF \/ stack = <<>>
           \/ (stack[1].name # "" /\ stack[1].name # provided_stack_name)
        THEN <<>>
        ELSE stack

\* a resolution that keeps the resolved stack's own name, even when empty
ResolvedStackName_own(stack, provided_stack_name) == stack.name

\* the session's stack_name after a successful resolution
ResolvedStackName(stack, provided_stack_name) ==
    IF stack.name # "" THEN stack.name ELSE provided_stack_name

_get_iac_stack ==
    /\ pc = "_get_iac_stack"
    /\ Log(OtherCall("_get_iac_stack", frame.stack_name))
    /\ LET stack == ResolvedStack(frame.stack_name)
       IN  IF stack = <<>>
           THEN /\ Raise(NoStackMsg)
                /\ UNCHANGED self
           ELSE /\ self' = [self EXCEPT
                        !._iac_stack = stack,
                        !.template_file = stack[1].origin_dir,
                        !.stack_name = ResolvedStackName(stack[1], frame.stack_name)]
                /\ pc' = "prompt_region"
                /\ UNCHANGED error
    /\ UNCHANGED <<args, project, env, frame, entry, saved, rerun>>

PromptRegion ==
    /\ pc = "prompt_region"
    /\ \E region \in Answers(frame.default_region, {"ap-south-1"}) :
         /\ Log(PromptCall("region", "", frame.default_region, FALSE, region))
         /\ frame' = [frame EXCEPT !.region = region, !.i = 1]
    /\ pc' = "prompt_parameters"
    /\ UNCHANGED <<args, self, project, env, entry, saved, error, rerun>>

ConfirmChangeset ==
    /\ pc = "confirm_changeset"
    /\ \E answer \in Confirms(self.confirm_changeset) :
         /\ Log(ConfirmCall("confirm_changeset", "", self.confirm_changeset, answer))
         /\ frame' = [frame EXCEPT !.confirm_changeset = answer]
    /\ pc' = "capabilities_confirm"
    /\ UNCHANGED <<args, self, project, env, entry, saved, error, rerun>>

ConfirmCapabilities ==
    /\ pc = "capabilities_confirm"
    /\ \E answer \in Confirms(TRUE) :
         /\ Log(ConfirmCall("capabilities_confirm", "", TRUE, answer))
         /\ frame' = [frame EXCEPT !.capabilities_confirm = answer, !.i = 1]
         /\ pc' = AfterCapabilitiesConfirm(answer)
    /\ UNCHANGED <<args, self, project, env, entry, saved, error, rerun>>

PromptCapabilities ==
    /\ pc = "prompt_capabilities"
    /\ \E input_capabilities \in
            {frame.default_capabilities} \cup
            (IF rerun THEN {} ELSE {<<"CAPABILITY_IAM", "CAPABILITY_AUTO_EXPAND">>}) :
         /\ Log([op |-> "prompt", step |-> "capabilities", target |-> "",
                 default_list |-> frame.default_capabilities,
                 answer_list |-> input_capabilities])
         /\ frame' = [frame EXCEPT !.input_capabilities = input_capabilities, !.i = 1]
    /\ pc' = "prompt_authorization"
    /\ UNCHANGED <<args, self, project, env, entry, saved, error, rerun>>

\* ------------------------------------------------------ prompt_authorization
\* a resource the scanner reports as authorized passes without a prompt
SkipAuthorized ==
    /\ pc = "prompt_authorization"
    /\ frame.i <= Len(env.auth)
    /\ env.auth[frame.i].authorization_required
    /\ frame' = [frame EXCEPT !.i = @ + 1]
    /\ UNCHANGED <<args, self, project, env, pc, entry, calls, saved, error, rerun>>

\* a flow that goes on whatever the answer
AuthorizationOutcome_ignored(auth_confirm) == "continue"

\* what follows the answer to an authorization confirmation
AuthorizationOutcome(auth_confirm) == IF ~auth_confirm THEN "raise" ELSE "continue"

ConfirmAuthorization ==
    /\ pc = "prompt_authorization"
    /\ frame.i <= Len(env.auth)
    /\ ~env.auth[frame.i].authorization_required
    /\ \E auth_confirm \in Confirms(FALSE) :
         /\ Log(ConfirmCall("authorization", env.auth[frame.i].resource, FALSE, auth_confirm))
         /\ IF AuthorizationOutcome(auth_confirm) = "raise"
            THEN /\ Raise(SecurityMsg)
                 /\ UNCHANGED frame
            ELSE /\ frame' = [frame EXCEPT !.i = @ + 1]
                 /\ UNCHANGED <<pc, error>>
    /\ UNCHANGED <<args, self, project, env, entry, saved, rerun>>

ReturnPromptAuthorization ==
    /\ pc = "prompt_authorization"
    /\ frame.i > Len(env.auth)
    /\ pc' = "prompt_code_signing_settings"
    /\ frame' = [frame EXCEPT !.i = 1]
    /\ UNCHANGED <<args, self, project, env, entry, calls, saved, error, rerun>>

\* ---------------------------------------------- prompt_code_signing_settings
\* signer_config_per_function: the functions, then the layers, to sign
signing_targets == env.signers.functions \o env.signers.layers

\* extract_profile_name_and_owner_from_existing: the values entered before
\* for that name, None where there are none
extract_profile_name_and_owner_from_existing(name, signing_profiles) ==
    IF ~signing_profiles.isNone /\ name \in DOMAIN signing_profiles.d
    THEN signing_profiles.d[name]
    ELSE [profile_name |-> NONE, profile_owner |-> NONE]

SkipCodeSigning ==
    /\ pc = "prompt_code_signing_settings"
    /\ signing_targets = <<>>
    /\ pc' = "save_to_config"
    /\ UNCHANGED <<args, self, project, env, frame, entry, calls, saved, error, rerun>>

ConfirmSignCode ==
    /\ pc = "prompt_code_signing_settings"
    /\ signing_targets # <<>>
    /\ \E sign_functions \in Confirms(TRUE) :
         /\ Log(ConfirmCall("sign_code", "", TRUE, sign_functions))
         /\ IF ~sign_functions
            THEN /\ self' = [self EXCEPT !.signing_profiles = NoneDict]
                 /\ pc' = "save_to_config"
            ELSE /\ self' = [self EXCEPT !.signing_profiles =
                        IF TruthyDict(@) THEN @ ELSE SomeDict(EmptyDict)]
                 /\ pc' = "prompt_profile_name"
    /\ frame' = [frame EXCEPT !.i = 1]
    /\ UNCHANGED <<args, project, env, entry, saved, error, rerun>>

PromptProfileName ==
    /\ pc = "prompt_profile_name"
    /\ LET name == signing_targets[frame.i]
           existing == extract_profile_name_and_owner_from_existing(name, self.signing_profiles)
       IN  \E profile_name \in Answers(existing.profile_name, {"profile-a"}) :
             /\ Log(PromptCall("signing_profile_name", name, existing.profile_name, FALSE, profile_name))
             /\ frame' = [frame EXCEPT !.profile_name = profile_name,
                                       !.profile_owner = existing.profile_owner]
    /\ pc' = "prompt_profile_owner"
    /\ UNCHANGED <<args, self, project, env, entry, saved, error, rerun>>

PromptProfileOwner ==
    /\ pc = "prompt_profile_owner"
    /\ LET name == signing_targets[frame.i]
           default == OrStr(frame.profile_owner, "")
       IN  \E profile_owner \in Answers(default, {"123456789012"}) :
             /\ Log(PromptCall("signing_profile_owner", name, default, FALSE, profile_owner))
             /\ self' = [self EXCEPT !.signing_profiles =
                    SomeDict(DictPut(@.d, name,
                        [profile_name |-> frame.profile_name,
                         profile_owner |-> OrStr(profile_owner, "")]))]
    /\ frame' = [frame EXCEPT !.i = @ + 1]
    /\ pc' = IF frame.i = Len(signing_targets) THEN "save_to_config"
             ELSE "prompt_profile_name"
    /\ UNCHANGED <<args, project, env, entry, saved, error, rerun>>

\* ------------------------------------------------- guided_prompts, the end
ConfirmSaveToConfig ==
    /\ pc = "save_to_config"
    /\ \E save_to_config \in Confirms(TRUE) :
         /\ Log(ConfirmCall("save_to_config", "", TRUE, save_to_config))
         /\ frame' = [frame EXCEPT !.save_to_config = save_to_config]
         /\ pc' = AfterSaveToConfig(save_to_config)
    /\ UNCHANGED <<args, self, project, env, entry, saved, error, rerun>>

PromptConfigFile ==
    /\ pc = "prompt_config_file"
    /\ \E config_file \in Answers(frame.default_config_file, {"custom.toml"}) :
         /\ Log(PromptCall("config_file", "", frame.default_config_file, FALSE, config_file))
         /\ frame' = [frame EXCEPT !.config_file = config_file]
    /\ pc' = "prompt_config_env"
    /\ UNCHANGED <<args, self, project, env, entry, saved, error, rerun>>

PromptConfigEnv ==
    /\ pc = "prompt_config_env"
    /\ \E config_env \in Answers(frame.default_config_env, {"prod"}) :
         /\ Log(PromptCall("config_env", "", frame.default_config_env, FALSE, config_env))
         /\ frame' = [frame EXCEPT !.config_env = config_env]
    /\ pc' = "manage_stack"
    /\ UNCHANGED <<args, self, project, env, entry, saved, error, rerun>>

\* manage_stack(profile, region): the managed bucket of that region
manage_stack(profile, region) == "aws-sam-cli-managed-" \o region

\* the capabilities the session keeps (line 195)
GuidedCapabilities(input_capabilities, default_capabilities) ==
    IF input_capabilities # <<>> THEN input_capabilities ELSE default_capabilities

\* the parameter overrides the session keeps (lines 196-198)
GuidedParameterOverrides(input_parameter_overrides, parameter_overrides_from_cmdline) ==
    IF DOMAIN input_parameter_overrides # {}
    THEN SomeDict(input_parameter_overrides)
    ELSE parameter_overrides_from_cmdline

\* lines 185-202: the bucket is provisioned, then the session is filled in
ManageStack ==
    /\ pc = "manage_stack"
    /\ Log(OtherCall("manage_stack", frame.region))
    /\ frame' = [frame EXCEPT !.s3_bucket = manage_stack(self.profile, frame.region)]
    /\ self' = [self EXCEPT
            !.guided_stack_name = frame.stack_name,
            !.guided_s3_bucket = manage_stack(self.profile, frame.region),
            !.guided_image_repositories = SomeDict(frame.image_repositories),
            !.guided_s3_prefix = frame.stack_name,
            !.guided_region = frame.region,
            !.guided_profile = self.profile,
            !._capabilities =
                GuidedCapabilities(frame.input_capabilities, frame.default_capabilities),
            !._parameter_overrides =
                GuidedParameterOverrides(frame.input_parameter_overrides,
                                         self.parameter_overrides_from_cmdline),
            !.save_to_config = frame.save_to_config,
            !.config_env = OrStr(frame.config_env, frame.default_config_env),
            !.config_file = OrStr(frame.config_file, frame.default_config_file),
            !.confirm_changeset = frame.confirm_changeset]
    /\ pc' = "save_config"
    /\ UNCHANGED <<args, project, env, entry, saved, error, rerun>>

\* ---------------------------------------------------------------------- run
\* a call that passes the bucket where the prefix belongs
SaveConfigArguments_swapped ==
    [parameter_overrides |-> self._parameter_overrides,
     config_env |-> OrStr(self.config_env, DEFAULT_ENV),
     config_file |-> OrStr(self.config_file, DEFAULT_CONFIG_FILE_NAME),
     stack_name |-> self.guided_stack_name,
     s3_bucket |-> self.guided_s3_bucket,
     s3_prefix |-> self.guided_s3_bucket,
     image_repositories |-> self.guided_image_repositories,
     region |-> self.guided_region,
     profile |-> self.guided_profile,
     confirm_changeset |-> self.confirm_changeset,
     capabilities |-> self._capabilities,
     signing_profiles |-> self.signing_profiles]

\* the arguments run() passes to save_config
SaveConfigArguments ==
    [parameter_overrides |-> self._parameter_overrides,
     config_env |-> OrStr(self.config_env, DEFAULT_ENV),
     config_file |-> OrStr(self.config_file, DEFAULT_CONFIG_FILE_NAME),
     stack_name |-> self.guided_stack_name,
     s3_bucket |-> self.guided_s3_bucket,
     s3_prefix |-> self.guided_s3_prefix,
     image_repositories |-> self.guided_image_repositories,
     region |-> self.guided_region,
     profile |-> self.guided_profile,
     confirm_changeset |-> self.confirm_changeset,
     capabilities |-> self._capabilities,
     signing_profiles |-> self.signing_profiles]

\* whether run() calls save_config once guided_prompts has returned
ShouldSave == self.save_to_config

\* lines 352-371, after guided_prompts has returned
SaveConfig ==
    /\ pc = "save_config"
    /\ Log(OtherCall("read_config_showcase", OrStr(self.config_file, DEFAULT_CONFIG_FILE_NAME)))
    /\ saved' = IF ShouldSave THEN Append(saved, SaveConfigArguments) ELSE saved
    /\ pc' = "done"
    /\ UNCHANGED <<args, self, project, env, frame, entry, error, rerun>>

\* a second invocation, constructed with the stack name, region and
\* capabilities the first one persisted and otherwise the same arguments
Rerun ==
    /\ pc = "done"
    /\ entry = "run"
    /\ ~rerun
    /\ saved # <<>>
    /\ LET a == [args EXCEPT !.stack_name = saved[1].stack_name,
                             !.region = saved[1].region,
                             !.capabilities = saved[1].capabilities]
       IN  /\ args' = a
           /\ self' = __init__(a)
    /\ frame' = NoFrame
    /\ pc' = "guided_prompts"
    /\ calls' = <<>>
    /\ rerun' = TRUE
    /\ UNCHANGED <<project, env, entry, saved, error>>

\* ------------------------------------------------------------ input domains
Key(i) == "P" \o ToString(i)

FunctionId(i) == "Function" \o ToString(i)

ResourceId(i) == "Resource" \o ToString(i)

\* sequences of length 0..n whose i-th element is taken from S[i]
SeqsUpTo(n, S) ==
    UNION {{q \in [1..m -> UNION {S[i] : i \in 1..m}] : \A i \in 1..m : q[i] \in S[i]}
           : m \in 0..n}

ParameterProps ==
    {EmptyDict,
     [Default |-> StrVal("d")],
     [Default |-> IntVal(5)],
     [NoEcho |-> TRUE],
     [Default |-> StrVal("d"), NoEcho |-> TRUE],
     [Default |-> StrVal("d"), NoEcho |-> FALSE]}

ParametersAt(i) == {[key |-> Key(i), props |-> p] : p \in ParameterProps}

FunctionsAt(i) ==
    {[id |-> FunctionId(i), packagetype |-> IMAGE, tag |-> t]
        : t \in {"tagged", "non_local", "no_image"}}
    \cup {[id |-> FunctionId(i), packagetype |-> ZIP, tag |-> "tagged"]}

AuthAt(i) ==
    {[resource |-> ResourceId(i), authorization_required |-> b] : b \in BOOLEAN}

NoSigners == [functions |-> <<>>, layers |-> <<>>]

BaseEnv ==
    [parameters |-> <<>>, functions |-> <<>>, auth |-> <<>>,
     signers |-> NoSigners, session_region |-> NONE]

BaseArgs ==
    [stack_name |-> NONE, image_repository |-> NONE,
     image_repositories |-> NoneDict, region |-> NONE, profile |-> "dev",
     confirm_changeset |-> FALSE, capabilities |-> <<>>,
     parameter_overrides |-> NoneDict, config_env |-> NONE,
     config_file |-> NONE, signing_profiles |-> NoneDict]

Shared == "111.dkr.ecr.us-east-1.amazonaws.com/shared"

Own == "111.dkr.ecr.us-east-1.amazonaws.com/own"

InitCommon ==
    /\ frame = NoFrame
    /\ calls = <<>>
    /\ saved = <<>>
    /\ error = NONE
    /\ rerun = FALSE

\* --- prompt_parameters called on its own
InitParams ==
    /\ InitCommon
    /\ entry = "prompt_parameters"
    /\ pc = "prompt_parameters"
    /\ project = <<Stack("")>>
    /\ \E parameters \in SeqsUpTo(MaxParams, [i \in 1..MaxParams |-> ParametersAt(i)]),
          overrides \in {NoneDict} \cup
              {SomeDict(d) : d \in Dicts({Key(i) : i \in 1..MaxParams}, {"v", ""})} :
         /\ env = [BaseEnv EXCEPT !.parameters = parameters]
         /\ args = [BaseArgs EXCEPT !.parameter_overrides = overrides]
    /\ self = __init__(args)

NextParams == PromptParameter \/ ReturnPromptParameters

SpecParams == InitParams /\ [][NextParams]_vars

\* --- prompt_image_repository called on its own, the stack being resolved
InitImage ==
    /\ InitCommon
    /\ entry = "prompt_image_repository"
    /\ pc = "prompt_image_repository"
    /\ project = <<Stack("")>>
    /\ \E functions \in SeqsUpTo(MaxFunctions, [i \in 1..MaxFunctions |-> FunctionsAt(i)]),
          image_repository \in {NONE, Shared},
          image_repositories \in {NoneDict} \cup
              {SomeDict(d) : d \in Dicts({FunctionId(i) : i \in 1..MaxFunctions}, {Own})} :
         /\ env = [BaseEnv EXCEPT !.functions = functions]
         /\ args = [BaseArgs EXCEPT !.image_repository = image_repository,
                                    !.image_repositories = image_repositories]
    /\ self = [__init__(args) EXCEPT !._iac_stack = default_stack]

NextImage == PromptRepository \/ TagTranslation \/ ReturnPromptImageRepository

SpecImage == InitImage /\ [][NextImage]_vars

\* --- guided_prompts up to the resolution of the stack (lines 122-140)
StackNames == {"", "stack-a", "stack-b"}

\* projects of at most MaxStacks stacks with distinct names
Projects ==
    UNION {{[i \in 1..m |-> Stack(q[i])] : q \in
                {r \in [1..m -> StackNames] : \A i, j \in 1..m : r[i] = r[j] => i = j}}
           : m \in 0..MaxStacks}

\* the constructor reads project.default_stack.name when no name is passed
Constructible(a, p) == TruthyStr(a.stack_name) \/ p # <<>>

InitStack ==
    /\ InitCommon
    /\ entry = "run"
    /\ pc = "guided_prompts"
    /\ project \in Projects
    /\ env = BaseEnv
    /\ \E stack_name \in {NONE, "stack-a", "stack-x"} :
         args = [BaseArgs EXCEPT !.stack_name = stack_name]
    /\ Constructible(args, project)
    /\ self = __init__(args)

NextStack == BeginGuidedPrompts \/ PromptStackName \/ _get_iac_stack

SpecStack == InitStack /\ [][NextStack]_vars

\* --- run()
FullEnv ==
    [parameters |-> <<[key |-> Key(1), props |-> [Default |-> StrVal("d")]]>>,
     functions |-> <<[id |-> FunctionId(1), packagetype |-> IMAGE, tag |-> "tagged"]>>,
     auth |-> <<>>,
     signers |-> [functions |-> <<FunctionId(1)>>, layers |-> <<>>],
     session_region |-> "us-west-2"]

FullArgs ==
    [stack_name |-> "stack-a", image_repository |-> Shared,
     image_repositories |-> NoneDict, region |-> "eu-west-1", profile |-> "dev",
     confirm_changeset |-> TRUE, capabilities |-> <<"CAPABILITY_NAMED_IAM">>,
     parameter_overrides |-> SomeDict([P1 |-> "v"]), config_env |-> "staging",
     config_file |-> NONE,
     signing_profiles |->
        SomeDict([Function1 |-> [profile_name |-> "existing", profile_owner |-> ""]])]

RunProjects == {<<>>, <<Stack("")>>, <<Stack("stack-a"), Stack("stack-b")>>}

RunEnvs ==
    {BaseEnv,
     [FullEnv EXCEPT !.functions[1].tag = "no_image"],
     [FullEnv EXCEPT !.signers.layers = <<"Layer1">>]}
    \cup {[FullEnv EXCEPT !.auth = a] : a \in SeqsUpTo(MaxResources, [i \in 1..MaxResources |-> AuthAt(i)])}

Init ==
    /\ InitCommon
    /\ entry = "run"
    /\ pc = "guided_prompts"
    /\ project \in RunProjects
    /\ env \in RunEnvs
    /\ args \in {BaseArgs, FullArgs}
    /\ Constructible(args, project)
    /\ self = __init__(args)

Next ==
    \/ BeginGuidedPrompts
    \/ PromptStackName
    \/ _get_iac_stack
    \/ PromptRegion
    \/ PromptParameter
    \/ ReturnPromptParameters
    \/ PromptRepository
    \/ TagTranslation
    \/ ReturnPromptImageRepository
    \/ ConfirmChangeset
    \/ ConfirmCapabilities
    \/ PromptCapabilities
    \/ SkipAuthorized
    \/ ConfirmAuthorization
    \/ ReturnPromptAuthorization
    \/ SkipCodeSigning
    \/ ConfirmSignCode
    \/ PromptProfileName
    \/ PromptProfileOwner
    \/ ConfirmSaveToConfig
    \/ PromptConfigFile
    \/ PromptConfigEnv
    \/ ManageStack
    \/ SaveConfig

Spec == Init /\ [][Next]_vars

\* --- run(), then run() again on what the first invocation persisted
InitRerun ==
    /\ InitCommon
    /\ entry = "run"
    /\ pc = "guided_prompts"
    /\ project \in RunProjects \ {<<>>}
    /\ env \in {[FullEnv EXCEPT !.auth = <<[resource |-> ResourceId(1),
                                             authorization_required |-> FALSE]>>],
                [FullEnv EXCEPT !.auth = <<[resource |-> ResourceId(1),
                                             authorization_required |-> TRUE]>>,
                                !.signers = NoSigners]}
    /\ args \in {BaseArgs, FullArgs}
    /\ self = __init__(args)

NextRerun == Next \/ Rerun

SpecRerun == InitRerun /\ [][NextRerun]_vars

\* ------------------------------------------------------------------ claims
CallIndexes == 1..Len(calls)

StepsAfterAuthorization ==
    {"sign_code", "signing_profile_name", "signing_profile_owner", "save_to_config",
     "config_file", "config_env", "manage_stack", "read_config_showcase"}

\* C1: a "no" to the confirmation of a resource lacking authorization raises
\* GuidedDeployFailedError("Security Constraints Not Satisfied!") there: the
\* declined confirmation is the last call of the flow, so no later resource
\* is confirmed and no code-signing prompt, save-to-config prompt or bucket
\* provisioning happens; and that error is raised by nothing else.
C1_DeclinedAuthorizationAborts ==
    /\ \A k \in CallIndexes :
          (calls[k].step = "authorization" /\ ~calls[k].answer) =>
              /\ k = Len(calls)
              /\ error = SecurityMsg
              /\ pc = "raised"
              /\ saved = <<>>
              /\ \A j \in CallIndexes : calls[j].step \notin StepsAfterAuthorization
    /\ \A k \in CallIndexes :
          calls[k].step = "authorization" =>
              \E i \in 1..Len(env.auth) :
                  /\ env.auth[i].resource = calls[k].target
                  /\ ~env.auth[i].authorization_required
    /\ error = SecurityMsg =>
          /\ calls # <<>>
          /\ calls[Len(calls)].step = "authorization"
          /\ ~calls[Len(calls)].answer
          /\ calls[Len(calls)].target = env.auth[frame.i].resource

\* the first of two unauthorized resources was declined, with code to sign
C1_Witness ==
    /\ error = SecurityMsg
    /\ frame.i < Len(env.auth)
    /\ ~env.auth[Len(env.auth)].authorization_required
    /\ signing_targets # <<>>

Causes == {NoStackMsg, InvalidEcrMsg, NoImagesMsg, SecurityMsg}

StackMatches(name) ==
    \/ \E i \in 1..Len(project) : project[i].name = name
    \/ project # <<>> /\ project[1].name = ""

NoCallRepeated ==
    Cardinality({<<calls[k].step, calls[k].target>> : k \in CallIndexes}) = Len(calls)

\* C2: when run() raises GuidedDeployFailedError (for one of its four
\* causes) nothing has been saved and the flow has stopped; save_config is
\* only ever reached when the stack resolved, every repository URL was an
\* ECR URL, no image function lacks its image and no authorization was
\* declined; and no prompt or collaborator call is made twice.
C2_FailureNeverPersists ==
    /\ error # NONE => (pc = "raised" /\ saved = <<>> /\ error \in Causes)
    /\ pc = "raised" => error # NONE
    /\ saved # <<>> =>
          /\ error = NONE
          /\ StackMatches(frame.stack_name)
          /\ \A id \in DOMAIN frame.image_repositories :
                is_ecr_url(frame.image_repositories[id])
          /\ \A i \in 1..Len(env.functions) :
                env.functions[i].packagetype = IMAGE => env.functions[i].tag # "no_image"
          /\ \A k \in CallIndexes : calls[k].step = "authorization" => calls[k].answer
    /\ NoCallRepeated

\* the flow failed on a missing image after prompts had been answered
C2_Witness ==
    /\ error = NoImagesMsg
    /\ saved = <<>>
    /\ Len(calls) > 3

\* the values guided_prompts collected, as save_config should receive them;
\* overrides is the parameter-override argument expected
CollectedArguments(overrides) ==
    [parameter_overrides |-> overrides,
     config_env |-> IF frame.save_to_config THEN frame.config_env
                    ELSE frame.default_config_env,
     config_file |-> IF frame.save_to_config THEN frame.config_file
                     ELSE frame.default_config_file,
     stack_name |-> frame.stack_name,
     s3_bucket |-> frame.s3_bucket,
     s3_prefix |-> frame.stack_name,
     image_repositories |-> SomeDict(frame.image_repositories),
     region |-> frame.region,
     profile |-> args.profile,
     confirm_changeset |-> frame.confirm_changeset,
     capabilities |-> IF frame.capabilities_confirm THEN frame.default_capabilities
                      ELSE frame.input_capabilities,
     signing_profiles |-> self.signing_profiles]

SavedExactly(overrides) ==
    pc = "done" =>
        /\ Len(saved) = (IF frame.save_to_config THEN 1 ELSE 0)
        /\ frame.save_to_config => saved[1] = CollectedArguments(overrides)
        /\ frame.s3_bucket = "aws-sam-cli-managed-" \o frame.region

\* C5 as stated: save_config is called once iff the user chose to save, with
\* exactly the values collected in this run, the parameter overrides being
\* the mapping the parameter prompts produced.
C5_SavedPromptedOverrides ==
    SavedExactly(SomeDict(frame.input_parameter_overrides))

\* C5 amended: as above, except that when no parameter was prompted (the
\* template declares none) the parameter overrides passed are the ones
\* given on the command line.
C5_SavedSessionState ==
    SavedExactly(IF DOMAIN frame.input_parameter_overrides # {}
                 THEN SomeDict(frame.input_parameter_overrides)
                 ELSE args.parameter_overrides)

\* a run that typed its own stack name, region and capabilities was saved
C5_Witness ==
    /\ pc = "done"
    /\ Len(saved) = 1
    /\ saved[1].stack_name = "stack-b"
    /\ saved[1].region = "ap-south-1"
    /\ ~frame.capabilities_confirm
    /\ DOMAIN frame.input_parameter_overrides # {}
    /\ DOMAIN frame.image_repositories # {}

StepRank(step) ==
    CASE step = "stack_name" -> 1
      [] step = "_get_iac_stack" -> 2
      [] step = "region" -> 3
      [] step = "parameter" -> 4
      [] step = "image_repository" -> 5
      [] step = "secho_tag" -> 6
      [] step = "confirm_changeset" -> 7
      [] step = "capabilities_confirm" -> 8
      [] step = "capabilities" -> 9
      [] step = "authorization" -> 10
      [] step = "sign_code" -> 11
      [] step \in {"signing_profile_name", "signing_profile_owner"} -> 12
      [] step = "save_to_config" -> 13
      [] step = "config_file" -> 14
      [] step = "config_env" -> 15
      [] step = "manage_stack" -> 16
      [] step = "read_config_showcase" -> 17

RepeatedSteps ==
    {"parameter", "image_repository", "secho_tag", "authorization",
     "signing_profile_name", "signing_profile_owner"}

UnconditionalSteps ==
    {"stack_name", "_get_iac_stack", "region", "confirm_changeset",
     "capabilities_confirm", "save_to_config", "manage_stack"}

UnconditionalRanks == {StepRank(m) : m \in UnconditionalSteps}

\* C10: the calls of a run come in the fixed order stack name, stack
\* resolution, region, parameters, image repositories, confirm-changeset,
\* capability auto-grant, capability list, authorizations, code signing,
\* save-to-config, config file, config environment, bucket provisioning;
\* only the per-item prompts repeat; no unconditional step is skipped; the
\* capability list is asked exactly when auto-grant was declined and the
\* config file and environment exactly when saving was accepted; and no
\* prompt follows bucket provisioning.
C10_FixedOrder ==
    /\ calls # <<>> => calls[1].step = "stack_name"
    /\ \A k \in 1..(Len(calls) - 1) :
          LET this == StepRank(calls[k].step)
              next == StepRank(calls[k + 1].step)
          IN  /\ this <= next
              /\ this = next => calls[k].step \in RepeatedSteps
              /\ \A r \in UnconditionalRanks : ~(this < r /\ r < next)
    /\ \A k \in 1..(Len(calls) - 1) :
          /\ calls[k].step = "capabilities_confirm" =>
                (calls[k + 1].step = "capabilities" <=> ~calls[k].answer)
          /\ calls[k].step = "save_to_config" =>
                (calls[k + 1].step = "config_file" <=> calls[k].answer)
          /\ calls[k].step = "config_file" => calls[k + 1].step = "config_env"
          /\ calls[k].step = "manage_stack" => calls[k + 1].op = "call"
    /\ \A k \in CallIndexes :
          /\ calls[k].step = "capabilities" =>
                (k > 1 /\ calls[k - 1].step = "capabilities_confirm")
          /\ calls[k].step = "config_file" =>
                (k > 1 /\ calls[k - 1].step = "save_to_config")
          /\ calls[k].step = "config_env" =>
                (k > 1 /\ calls[k - 1].step = "config_file")

\* a finished run that went through every kind of step
C10_Witness ==
    /\ pc = "done"
    /\ \A r \in 1..17 : \E k \in CallIndexes : StepRank(calls[k].step) = r

\* the template's declaration of a prompted parameter
ParameterOf(key) ==
    CHOOSE p \in {env.parameters[i] : i \in 1..Len(env.parameters)} : p.key = key

Sensitive(p) == "NoEcho" \in DOMAIN p.props /\ p.props["NoEcho"]

\* C3: when a shared image_repository value is given, the default of an
\* image function's repository prompt is the function's entry of the prior
\* image_repositories mapping if it has one, and the shared value otherwise,
\* whether the prior mapping is None or a mapping lacking that function.
C3_SharedDefaultWithoutOwnEntry ==
    \A k \in CallIndexes :
        (calls[k].step = "image_repository" /\ args.image_repository # NONE) =>
            calls[k].default =
                (IF /\ ~args.image_repositories.isNone
                    /\ calls[k].target \in DOMAIN args.image_repositories.d
                 THEN args.image_repositories.d[calls[k].target]
                 ELSE args.image_repository)

\* C4: the default of a non-sensitive parameter's prompt is the override
\* value whenever the override mapping contains the key (an empty value
\* included), else the template's Default as a string, else "".
C4_OverridePrecedence ==
    \A k \in CallIndexes :
        (calls[k].step = "parameter" /\ ~Sensitive(ParameterOf(calls[k].target))) =>
            LET p == ParameterOf(calls[k].target)
                overrides == args.parameter_overrides
            IN  calls[k].default =
                    (IF ~overrides.isNone /\ p.key \in DOMAIN overrides.d
                     THEN overrides.d[p.key]
                     ELSE IF "Default" \in DOMAIN p.props
                          THEN str(p.props["Default"])
                          ELSE "")

\* C9: a sensitive (NoEcho) parameter is prompted without a default and with
\* hidden input, whatever override or template default exists for it, and is
\* recorded with Hidden set; a non-sensitive parameter is prompted with
\* visible input and recorded with Hidden cleared; every recorded value is
\* the answer given at that parameter's prompt.
C9_SensitiveParameters ==
    /\ \A k \in CallIndexes :
          calls[k].step = "parameter" =>
              LET p == ParameterOf(calls[k].target)
              IN  /\ Sensitive(p) => (calls[k].default = NONE /\ calls[k].hide_input)
                  /\ ~Sensitive(p) => ~calls[k].hide_input
                  /\ calls[k].target \in DOMAIN frame.input_parameter_overrides
                  /\ frame.input_parameter_overrides[calls[k].target] =
                        [Value |-> calls[k].answer, Hidden |-> Sensitive(p)]
    /\ \A key \in DOMAIN frame.input_parameter_overrides :
          \E k \in CallIndexes : calls[k].step = "parameter" /\ calls[k].target = key
    /\ pc = "done" =>
          DOMAIN frame.input_parameter_overrides =
              {env.parameters[i].key : i \in 1..Len(env.parameters)}

\* a sensitive parameter with both an override and a template default, and a
\* non-sensitive one, have been prompted
C9_Witness ==
    /\ pc = "done"
    /\ \E i, j \in 1..Len(env.parameters) :
          /\ Sensitive(env.parameters[i])
          /\ "Default" \in DOMAIN env.parameters[i].props
          /\ ~args.parameter_overrides.isNone
          /\ env.parameters[i].key \in DOMAIN args.parameter_overrides.d
          /\ args.parameter_overrides.d[env.parameters[i].key] = "v"
          /\ ~Sensitive(env.parameters[j])

ImageFunctions ==
    {env.functions[i] : i \in {j \in 1..Len(env.functions) :
                                 env.functions[j].packagetype = IMAGE}}

\* C8: the tag loop raises "No images found to deploy, try running sam
\* build" only for an image function whose image is not found, and then all
\* repository prompts had been answered with ECR URLs; the flow completes
\* only if no image function lacks its image, and then a tag line has been
\* shown for exactly the image functions whose tag resolved (none for a
\* non-local image) and the returned mapping holds the answer given for
\* every image function.
C8_TagResolution ==
    /\ error \in {NONE, NoImagesMsg, InvalidEcrMsg}
    /\ error = NoImagesMsg =>
          /\ \E f \in ImageFunctions : f.tag = "no_image"
          /\ DOMAIN frame.image_repositories = {f.id : f \in ImageFunctions}
          /\ \A id \in DOMAIN frame.image_repositories :
                is_ecr_url(frame.image_repositories[id])
    /\ pc = "done" =>
          /\ \A f \in ImageFunctions : f.tag # "no_image"
          /\ {calls[k].target : k \in {j \in CallIndexes : calls[j].step = "secho_tag"}}
                = {f.id : f \in {g \in ImageFunctions : g.tag = "tagged"}}
          /\ DOMAIN frame.image_repositories = {f.id : f \in ImageFunctions}
          /\ \A k \in CallIndexes :
                calls[k].step = "image_repository" =>
                    /\ is_ecr_url(calls[k].answer)
                    /\ frame.image_repositories[calls[k].target] = calls[k].answer

\* the flow completed past a non-local image and showed another one's tag
C8_Witness ==
    /\ pc = "done"
    /\ \E f, g \in ImageFunctions : f.tag = "non_local" /\ g.tag = "tagged"
    /\ \E k \in CallIndexes : calls[k].step = "secho_tag"

\* C6: the resolution succeeds exactly when a stack of the project carries
\* the entered name or, none doing so, the default stack is unnamed; it then
\* settles on that stack and the session's stack_name is the entered name;
\* otherwise it raises GuidedDeployFailedError, the stack name having been
\* asked once.
C6_StackResolution ==
    LET name == frame.stack_name
        resolved == \E k \in CallIndexes : calls[k].step = "_get_iac_stack"
    IN  /\ resolved => pc \in {"prompt_region", "raised"}
        /\ pc = "prompt_region" =>
              /\ StackMatches(name)
              /\ error = NONE
              /\ self.stack_name = name
              /\ self._iac_stack # <<>>
              /\ self._iac_stack[1].name \in {name, ""}
              /\ \E i \in 1..Len(project) : project[i] = self._iac_stack[1]
              /\ self._iac_stack[1].name = "" => self._iac_stack[1] = project[1]
              /\ self.template_file = self._iac_stack[1].origin_dir
        /\ pc = "raised" =>
              /\ ~StackMatches(name)
              /\ error = NoStackMsg
              /\ self._iac_stack = <<>>
              /\ Cardinality({k \in CallIndexes : calls[k].step = "stack_name"}) = 1
              /\ calls[Len(calls)].step = "_get_iac_stack"

\* a typed name no stack carries resolved to the unnamed default stack
C6_Witness ==
    /\ pc = "prompt_region"
    /\ Len(project) > 1
    /\ self._iac_stack[1].name = ""
    /\ frame.stack_name = "stack-b"
    /\ \A i \in 1..Len(project) : project[i].name # "stack-b"

\* C7: a second run constructed with the stack name, region and
\* capabilities the first run persisted, whose user accepts every default,
\* persists the same stack name, region and capabilities.
C7_RoundTrip ==
    /\ Len(saved) <= 2
    /\ Len(saved) = 2 =>
          /\ rerun
          /\ saved[2].stack_name = saved[1].stack_name
          /\ saved[2].region = saved[1].region
          /\ saved[2].capabilities = saved[1].capabilities
          /\ saved[2].s3_prefix = saved[1].s3_prefix

\* the first run persisted typed values and the second run was saved too
C7_Witness ==
    /\ Len(saved) = 2
    /\ saved[1].stack_name = "stack-b"
    /\ saved[1].region = "ap-south-1"
    /\ saved[1].capabilities = <<"CAPABILITY_IAM", "CAPABILITY_AUTO_EXPAND">>

====
